---- MODULE Spec2Model ----
\* Model of cmd/diff.go (ksonnet `ks diff`): the RunE handler of diffCmd,
\* initDiffCmd and the four init functions it dispatches to, setupClientConfig
\* and expandEnvObjs.
\*
\* Go strings are modelled as tuples of one-character strings so that
\* strings.SplitN and strings.HasPrefix are computed, not assumed.
\* Calls into other packages (os.Getwd, metadata.Find, the expander, the
\* client builders) are steps whose success or failure is chosen
\* nondeterministically; every such call is appended to the log `io`.
EXTENDS Integers, Sequences, FiniteSets, TLC

VARIABLES
    args,           \* positional arguments handed to RunE
    files,          \* value of the component flag (componentNames / files)
    diffStrategy,   \* value of the diff-strategy flag
    flagJpath,      \* expander.FlagJpath as returned by newExpander(cmd)
    flagExtCodes,   \* expander.ExtCodes as returned by newExpander(cmd)
    pc,             \* position of the invocation
    fn,             \* the init function initDiffCmd delegated to ("" before)
    c,              \* the command object under construction (nil when returned nil)
    err,            \* the error RunE returns ("none" while there is none)
    io,             \* calls made so far that leave the package, in order
    evalCalls,      \* calls of expander.Expand made so far, in order
    ran             \* whether c.Run was invoked

vars == <<args, files, diffStrategy, flagJpath, flagExtCodes,
          pc, fn, c, err, io, evalCalls, ran>>

inputs == <<args, files, diffStrategy, flagJpath, flagExtCodes>>

-----------------------------------------------------------------------------
\* Bounds of the model.

MaxArgs == 3
MaxFiles == 1
MaxCaller == 2

-----------------------------------------------------------------------------
\* Strings.

local == <<"l", "o", "c", "a", "l">>
remote == <<"r", "e", "m", "o", "t", "e">>

Colon == <<":">>

\* The locator strings the arguments are drawn from:
\*   dev  local:a  local:b  remote:a  remote:b  local:  remote:a:b
\*   foo:a  local  locale:a
Locators ==
    { <<"d", "e", "v">>,
      local \o Colon \o <<"a">>,
      local \o Colon \o <<"b">>,
      remote \o Colon \o <<"a">>,
      remote \o Colon \o <<"b">>,
      local \o Colon,
      remote \o Colon \o <<"a">> \o Colon \o <<"b">>,
      <<"f", "o", "o">> \o Colon \o <<"a">>,
      local,
      local \o <<"e">> \o Colon \o <<"a">> }

Components == { <<"r", "e", "d", "i", "s">> }

Strategies == { "subset", "all" }

RECURSIVE SeqsUpTo(_, _)
SeqsUpTo(S, n) ==
    IF n = 0 THEN { <<>> }
    ELSE LET shorter == SeqsUpTo(S, n - 1)
         IN  shorter \cup { Append(s, x) : s \in { t \in shorter : Len(t) = n - 1 }, x \in S }

\* strings.Index for a one-character separator, 1-based; 0 when absent.
IndexOf(s, ch) ==
    IF \E i \in 1..Len(s) : s[i] = ch
    THEN CHOOSE i \in 1..Len(s) : s[i] = ch /\ \A j \in 1..(i - 1) : s[j] # ch
    ELSE 0

\* strings.HasPrefix
HasPrefix(s, prefix) ==
    Len(s) >= Len(prefix) /\ SubSeq(s, 1, Len(prefix)) = prefix

\* strings.SplitN(s, sep, n) for a one-character sep: at most n substrings,
\* the last one being the unsplit remainder; n = 0 gives no substrings.
RECURSIVE SplitN(_, _, _)
SplitN(s, sep, n) ==
    IF n = 0 THEN <<>>
    ELSE LET i == IndexOf(s, sep)
         IN  IF n = 1 \/ i = 0
             THEN <<s>>
             ELSE <<SubSeq(s, 1, i - 1)>> \o SplitN(SubSeq(s, i + 1, Len(s)), sep, n - 1)

-----------------------------------------------------------------------------
\* Values.

Nil == <<"nil", <<>>>>
Objs(env) == <<"objs", env>>
Pool(env) == <<"pool", env>>
Disc(env) == <<"discovery", env>>
Ns(env) == <<"namespace", env>>

\* Zero value of kubecfg.Client / kubecfg.LocalEnv.
EmptySlot ==
    [Name |-> <<>>, APIObjects |-> Nil, ClientPool |-> Nil,
     Discovery |-> Nil, Namespace |-> Nil]

NilCmd == [type |-> "nil", DiffStrategy |-> "", A |-> EmptySlot, B |-> EmptySlot]

\* A freshly made command of the given Go type with DiffStrategy set.
\* Slot A is Client / Env1 / ClientA, slot B is Env2 / ClientB.
NewCmd(type, strategy) ==
    [type |-> type, DiffStrategy |-> strategy, A |-> EmptySlot, B |-> EmptySlot]

IoEntry(op, env, ok) == [op |-> op, env |-> env, ok |-> ok]

\* Caller-provided search paths (-J) and external codes (--ext-code).
J1 == <<"caller", <<"J1">>>>
J2 == <<"caller", <<"J2">>>>
X1 == <<"caller", <<"X1">>>>
X2 == <<"caller", <<"X2">>>>
CallerPaths == { J1, J2 }
CallerCodes == { X1, X2 }

\* dev | local:a local:b | remote:a remote:b | local:a remote:b | remote:b local:a
ExpandArgs ==
    { << <<"d", "e", "v">> >>,
      << local \o Colon \o <<"a">>, local \o Colon \o <<"b">> >>,
      << remote \o Colon \o <<"a">>, remote \o Colon \o <<"b">> >>,
      << local \o Colon \o <<"a">>, remote \o Colon \o <<"b">> >>,
      << remote \o Colon \o <<"b">>, local \o Colon \o <<"a">> >> }

-----------------------------------------------------------------------------
\* expandEnvObjs: what it hands to the template evaluator.

\* manager.LibPaths(env): the five paths, named as the call site names them.
LibPaths(env) ==
    [libPath          |-> <<"lib", <<>>>>,
     vendorPath       |-> <<"vendor", <<>>>>,
     envLibPath       |-> <<"envLib", env>>,
     envComponentPath |-> <<"envComponent", env>>,
     envParamsPath    |-> <<"envParams", env>>]

\* manager.ComponentPaths() and constructBaseObj(componentPaths, nil)
ComponentPaths == <<"components", <<>>>>
constructBaseObj(componentPaths) == <<"baseObj", componentPaths[2]>>

\* importParams(string(envParamsPath))
importParams(path) == <<"import", path[2]>>

FlagJpath_EnvLibFirst(libPath, vendorPath, envLibPath, callerJpath) ==
    <<envLibPath, vendorPath, libPath>> \o callerJpath

\* expander.FlagJpath = append([]string{libPath, vendorPath, envLibPath}, expander.FlagJpath...)
FlagJpath(libPath, vendorPath, envLibPath, callerJpath) ==
    <<libPath, vendorPath, envLibPath>> \o callerJpath

ExtCodes_CallerFirst(baseObj, params, callerCodes) ==
    callerCodes \o <<baseObj, params>>

\* expander.ExtCodes = append([]string{baseObj, params}, expander.ExtCodes...)
ExtCodes(baseObj, params, callerCodes) ==
    <<baseObj, params>> \o callerCodes

\* The call expander.Expand(envFiles) that expandEnvObjs(cmd, env, manager)
\* makes, with the expander's fields at that moment.
ExpandCall(env) ==
    LET p       == LibPaths(env)
        baseObj == constructBaseObj(ComponentPaths)
        params  == importParams(p.envParamsPath)
    IN  [env      |-> env,
         envFiles |-> <<p.envComponentPath>>,
         jpath    |-> FlagJpath(p.libPath, p.vendorPath, p.envLibPath, flagJpath),
         extCodes |-> ExtCodes(baseObj, params, flagExtCodes)]

\* Where expandEnvObjs can return: an error of newExpander, ComponentPaths,
\* constructBaseObj or Expand, or the expanded objects.
ExpandOutcomes == { "ok", "newExpander", "ComponentPaths", "constructBaseObj", "Expand" }

\* Where setupClientConfig can return: an error of restClient or
\* namespaceFor, or the client pool, discovery and namespace.
ClientOutcomes == { "ok", "restClient", "namespaceFor" }

-----------------------------------------------------------------------------
\* Error kinds, by the place that returns them.
\*   NoArguments                        line 52
\*   TooManyArguments                   line 55
\*   MissingOrInvalidPrefix             line 160
\*   UnsupportedFlagCombination         line 163
\*   PrefixNotAllowedForSingleArgument  line 196
\*   GetwdError, FindError, ExpansionError, ClientError, NamespaceError,
\*   RunError: the error of the failed call, returned unchanged.

Continue_IgnoreErr(ok, e, next, cnew) ==
    /\ pc' = next
    /\ err' = err
    /\ c' = cnew

\* x, err := call(); if err != nil { return nil, err }
Continue(ok, e, next, cnew) ==
    IF ok
    THEN /\ pc' = next
         /\ err' = err
         /\ c' = cnew
    ELSE /\ pc' = "done"
         /\ err' = e
         /\ c' = NilCmd

\* return nil, fmt.Errorf(...)
Fail(e) ==
    /\ pc' = "done"
    /\ err' = e
    /\ c' = NilCmd

-----------------------------------------------------------------------------
\* Initial states: one invocation of the command with its inputs.

InitRest ==
    /\ pc = "RunE"
    /\ fn = [name |-> "", env1 |-> <<>>, env2 |-> <<>>]
    /\ c = NilCmd
    /\ err = "none"
    /\ io = <<>>
    /\ evalCalls = <<>>
    /\ ran = FALSE

Init ==
    /\ args \in SeqsUpTo(Locators, MaxArgs)
    /\ files \in SeqsUpTo(Components, MaxFiles)
    /\ diffStrategy \in Strategies
    /\ \E given \in BOOLEAN :
        /\ flagJpath = IF given THEN <<J1, J2>> ELSE <<>>
        /\ flagExtCodes = IF given THEN <<X1, X2>> ELSE <<>>
    /\ InitRest

\* Initial states for expandEnvObjs: every list of caller-provided search
\* paths and external codes, on argument lists that reach each init function.
InitExpand ==
    /\ args \in ExpandArgs
    /\ files = <<>>
    /\ diffStrategy = "subset"
    /\ flagJpath \in SeqsUpTo(CallerPaths, MaxCaller)
    /\ flagExtCodes \in SeqsUpTo(CallerCodes, MaxCaller)
    /\ InitRest

-----------------------------------------------------------------------------
\* diffCmd.RunE

\* Lines 51-56: the argument count.
RunE ==
    /\ pc = "RunE"
    /\ IF Len(args) = 0
       THEN Fail("NoArguments")
       ELSE IF Len(args) > 2
            THEN Fail("TooManyArguments")
            ELSE pc' = "Getwd" /\ UNCHANGED <<c, err>>
    /\ UNCHANGED <<inputs, fn, io, evalCalls, ran>>

\* Lines 60-84: os.Getwd; the flag lookups after it read flags that init()
\* registered, so they return no error.
Getwd ==
    /\ pc = "Getwd"
    /\ \E ok \in BOOLEAN :
        /\ io' = Append(io, IoEntry("Getwd", <<>>, ok))
        /\ Continue(ok, "GetwdError", "initDiffCmd", c)
    /\ UNCHANGED <<inputs, fn, evalCalls, ran>>

-----------------------------------------------------------------------------
\* initDiffCmd

SinglePrefixed_RemoteOnly(env) ==
    HasPrefix(env, remote \o Colon)

SinglePrefixed_AnyColon(env) ==
    IndexOf(env, ":") > 0

\* Line 195
SinglePrefixed(env) ==
    HasPrefix(env, remote \o Colon) \/ HasPrefix(env, local \o Colon)

InvalidPrefixes_FirstOnly(env1, env2) ==
    \/ Len(env1) < 2
    \/ Len(env2) < 2
    \/ (env1[1] # local /\ env1[1] # remote)

\* Line 159
InvalidPrefixes(env1, env2) ==
    \/ Len(env1) < 2
    \/ Len(env2) < 2
    \/ (env1[1] # local /\ env1[1] # remote)
    \/ (env2[1] # local /\ env2[1] # remote)

FilesGiven_MoreThanOne(fs) == Len(fs) > 1

\* Line 162
FilesGiven(fs) == Len(fs) > 0

Sides_Positional(env1, env2) ==
    [localEnv |-> env1[2], remoteEnv |-> env2[2]]

\* Lines 179-184
Sides(env1, env2) ==
    IF env1[1] = remote
    THEN [localEnv |-> env2[2], remoteEnv |-> env1[2]]
    ELSE [localEnv |-> env1[2], remoteEnv |-> env2[2]]

\* Lines 171-185: the init function called and its two environment arguments.
Dispatch(env1, env2) ==
    IF env1[1] = local /\ env2[1] = local
    THEN [name |-> "initDiffLocalCmd", env1 |-> env1[2], env2 |-> env2[2]]
    ELSE IF env1[1] = remote /\ env2[1] = remote
         THEN [name |-> "initDiffRemotesCmd", env1 |-> env1[2], env2 |-> env2[2]]
         ELSE LET s == Sides(env1, env2)
              IN  [name |-> "initDiffRemoteCmd", env1 |-> s.localEnv, env2 |-> s.remoteEnv]

\* Lines 189-197: initDiffSingleEnv up to its first builder call.
initDiffSingleEnv(env) ==
    /\ fn' = [name |-> "initDiffSingleEnv", env1 |-> env, env2 |-> env]
    /\ IF SinglePrefixed(env)
       THEN Fail("PrefixNotAllowedForSingleArgument")
       ELSE /\ pc' = "SingleExpand"
            /\ c' = NewCmd("DiffRemoteCmd", diffStrategy)
            /\ err' = err

initDiffCmd_FindFirst ==
    /\ pc = "initDiffCmd"
    /\ IF Len(args) < 2
       THEN initDiffSingleEnv(args[1]) /\ io' = io
       ELSE LET env1 == SplitN(args[1], ":", 2)
                env2 == SplitN(args[2], ":", 2)
            IN  /\ io' = Append(io, IoEntry("Find", <<>>, TRUE))
                /\ fn' = fn
                /\ IF InvalidPrefixes(env1, env2)
                   THEN Fail("MissingOrInvalidPrefix")
                   ELSE IF FilesGiven(files)
                        THEN Fail("UnsupportedFlagCombination")
                        ELSE pc' = "Find" /\ UNCHANGED <<c, err>>
    /\ UNCHANGED <<inputs, evalCalls, ran>>

\* Lines 150-164: the single-argument branch and the validation of two.
initDiffCmd ==
    /\ pc = "initDiffCmd"
    /\ IF Len(args) < 2
       THEN initDiffSingleEnv(args[1])
       ELSE LET env1 == SplitN(args[1], ":", 2)
                env2 == SplitN(args[2], ":", 2)
            IN  /\ fn' = fn
                /\ IF InvalidPrefixes(env1, env2)
                   THEN Fail("MissingOrInvalidPrefix")
                   ELSE IF FilesGiven(files)
                        THEN Fail("UnsupportedFlagCombination")
                        ELSE pc' = "Find" /\ UNCHANGED <<c, err>>
    /\ UNCHANGED <<inputs, io, evalCalls, ran>>

\* The command object each init function makes before its first builder call.
FirstCmd(d) ==
    IF d.name = "initDiffLocalCmd"
    THEN [NewCmd("DiffLocalCmd", diffStrategy) EXCEPT !.A.Name = d.env1]
    ELSE IF d.name = "initDiffRemotesCmd"
         THEN [NewCmd("DiffRemotesCmd", diffStrategy)
                 EXCEPT !.A.Name = d.env1, !.B.Name = d.env2]
         ELSE NewCmd("DiffRemoteCmd", diffStrategy)

FirstStep(d) ==
    IF d.name = "initDiffLocalCmd" THEN "LocalExpand1"
    ELSE IF d.name = "initDiffRemotesCmd" THEN "RemotesExpandA"
    ELSE "RemoteExpand"

\* Lines 166-185: metadata.Find(wd), then the dispatch on the two kinds.
Find ==
    /\ pc = "Find"
    /\ LET d == Dispatch(SplitN(args[1], ":", 2), SplitN(args[2], ":", 2))
       IN  \E ok \in BOOLEAN :
            /\ io' = Append(io, IoEntry("Find", <<>>, ok))
            /\ fn' = IF ok THEN d ELSE fn
            /\ Continue(ok, "FindError", FirstStep(d), FirstCmd(d))
    /\ UNCHANGED <<inputs, evalCalls, ran>>

-----------------------------------------------------------------------------
\* The builder calls.

\* x.APIObjects, err = expandEnvObjs(cmd, env, m), lines 313-337, for the
\* client or local environment in slot A or B of c.
expandEnvObjs(env, slot, cnow, next) ==
    \E out \in ExpandOutcomes :
        /\ io' = Append(io, IoEntry("expandEnvObjs", env, out = "ok"))
        /\ evalCalls' = IF out \in { "ok", "Expand" }
                        THEN Append(evalCalls, ExpandCall(env))
                        ELSE evalCalls
        /\ Continue(out = "ok", "ExpansionError", next,
                    [cnow EXCEPT ![slot].APIObjects = Objs(env)])

\* x.ClientPool, x.Discovery, x.Namespace, err = setupClientConfig(&env, cmd),
\* lines 293-310.
setupClientConfig(env, slot, next) ==
    \E out \in ClientOutcomes :
        /\ io' = Append(io, IoEntry("setupClientConfig", env, out = "ok"))
        /\ Continue(out = "ok", "ClientError", next,
                    [c EXCEPT ![slot].ClientPool = Pool(env),
                              ![slot].Discovery = Disc(env),
                              ![slot].Namespace = Ns(env)])

-----------------------------------------------------------------------------
\* initDiffSingleEnv, lines 199-214

\* c.Client.APIObjects, err = expandEnvCmdObjs(cmd, env, files, wd)
SingleExpand ==
    /\ pc = "SingleExpand"
    /\ \E ok \in BOOLEAN :
        /\ io' = Append(io, IoEntry("expandEnvCmdObjs", fn.env1, ok))
        /\ Continue(ok, "ExpansionError", "SingleClientPool",
                    [c EXCEPT !.A.APIObjects = Objs(fn.env1)])
    /\ UNCHANGED <<inputs, fn, evalCalls, ran>>

\* c.Client.ClientPool, c.Client.Discovery, err = restClientPool(cmd, &env)
SingleClientPool ==
    /\ pc = "SingleClientPool"
    /\ \E ok \in BOOLEAN :
        /\ io' = Append(io, IoEntry("restClientPool", fn.env1, ok))
        /\ Continue(ok, "ClientError", "SingleNamespace",
                    [c EXCEPT !.A.ClientPool = Pool(fn.env1),
                              !.A.Discovery = Disc(fn.env1)])
    /\ UNCHANGED <<inputs, fn, evalCalls, ran>>

\* c.Client.Namespace, err = namespace()
SingleNamespace ==
    /\ pc = "SingleNamespace"
    /\ \E ok \in BOOLEAN :
        /\ io' = Append(io, IoEntry("namespace", <<>>, ok))
        /\ Continue(ok, "NamespaceError", "Run",
                    [c EXCEPT !.A.Namespace = Ns(<<>>)])
    /\ UNCHANGED <<inputs, fn, evalCalls, ran>>

-----------------------------------------------------------------------------
\* initDiffLocalCmd, lines 223-237

LocalExpand1 ==
    /\ pc = "LocalExpand1"
    /\ expandEnvObjs(c.A.Name, "A", c, "LocalExpand2")
    /\ UNCHANGED <<inputs, fn, ran>>

LocalExpand2 ==
    /\ pc = "LocalExpand2"
    /\ LET c2 == [c EXCEPT !.B.Name = fn.env2]
       IN  expandEnvObjs(c2.B.Name, "B", c2, "Run")
    /\ UNCHANGED <<inputs, fn, ran>>

-----------------------------------------------------------------------------
\* initDiffRemotesCmd, lines 251-270

RemotesExpandA ==
    /\ pc = "RemotesExpandA"
    /\ expandEnvObjs(c.A.Name, "A", c, "RemotesExpandB")
    /\ UNCHANGED <<inputs, fn, ran>>

RemotesExpandB ==
    /\ pc = "RemotesExpandB"
    /\ expandEnvObjs(c.B.Name, "B", c, "RemotesClientA")
    /\ UNCHANGED <<inputs, fn, ran>>

RemotesClientA ==
    /\ pc = "RemotesClientA"
    /\ setupClientConfig(c.A.Name, "A", "RemotesClientB")
    /\ UNCHANGED <<inputs, fn, evalCalls, ran>>

RemotesClientB_NameOfA ==
    /\ pc = "RemotesClientB"
    /\ setupClientConfig(c.A.Name, "B", "Run")
    /\ UNCHANGED <<inputs, fn, evalCalls, ran>>

RemotesClientB ==
    /\ pc = "RemotesClientB"
    /\ setupClientConfig(c.B.Name, "B", "Run")
    /\ UNCHANGED <<inputs, fn, evalCalls, ran>>

-----------------------------------------------------------------------------
\* initDiffRemoteCmd, lines 279-290

RemoteExpand ==
    /\ pc = "RemoteExpand"
    /\ expandEnvObjs(fn.env1, "A", c, "RemoteClient")
    /\ UNCHANGED <<inputs, fn, ran>>

RemoteClient ==
    /\ pc = "RemoteClient"
    /\ setupClientConfig(fn.env2, "A", "Run")
    /\ UNCHANGED <<inputs, fn, evalCalls, ran>>

-----------------------------------------------------------------------------
\* Line 91: return c.Run(cmd.OutOrStdout()). RunE returns whatever error
\* Run returns; the command that was built is not touched.
Run ==
    /\ pc = "Run"
    /\ ran' = TRUE
    /\ \E ok \in BOOLEAN :
        /\ io' = Append(io, IoEntry("Run", <<>>, ok))
        /\ err' = IF ok THEN err ELSE "RunError"
    /\ pc' = "done"
    /\ UNCHANGED <<inputs, fn, c, evalCalls>>

Next ==
    \/ RunE
    \/ Getwd
    \/ initDiffCmd
    \/ Find
    \/ SingleExpand
    \/ SingleClientPool
    \/ SingleNamespace
    \/ LocalExpand1
    \/ LocalExpand2
    \/ RemotesExpandA
    \/ RemotesExpandB
    \/ RemotesClientA
    \/ RemotesClientB
    \/ RemoteExpand
    \/ RemoteClient
    \/ Run

Spec == Init /\ [][Next]_vars

SpecExpand == InitExpand /\ [][Next]_vars

-----------------------------------------------------------------------------
\* Vocabulary of the properties, stated on the argument strings themselves
\* (not on what initDiffCmd computed from them).

\* s is kind ":" name for some name, possibly empty.
QualifiedAs(s, kind) ==
    /\ Len(s) > Len(kind)
    /\ \A i \in 1..Len(kind) : s[i] = kind[i]
    /\ s[Len(kind) + 1] = ":"

Qualified(s) == QualifiedAs(s, local) \/ QualifiedAs(s, remote)

KindOf(s) == IF QualifiedAs(s, local) THEN "local" ELSE "remote"

\* The name of a qualified locator: everything after its first colon.
NameOf(s) ==
    IF QualifiedAs(s, local)
    THEN SubSeq(s, Len(local) + 2, Len(s))
    ELSE SubSeq(s, Len(remote) + 2, Len(s))

\* s holds a colon and the text before its first colon is neither local nor remote.
ForeignPrefix(s) ==
    \E i \in 1..Len(s) :
        /\ s[i] = ":"
        /\ \A j \in 1..(i - 1) : s[j] # ":"
        /\ SubSeq(s, 1, i - 1) # local
        /\ SubSeq(s, 1, i - 1) # remote

ArgumentErrors ==
    { "NoArguments", "TooManyArguments", "PrefixNotAllowedForSingleArgument",
      "MissingOrInvalidPrefix", "UnsupportedFlagCombination", "InvalidLocatorFormat" }

BuilderOps == { "expandEnvCmdObjs", "expandEnvObjs", "restClientPool", "namespace", "setupClientConfig" }

IsBuilder(e) == e.op \in BuilderOps
IsExpansion(e) == e.op \in { "expandEnvCmdObjs", "expandEnvObjs" }
IsClientBuild(e) == e.op \in { "restClientPool", "setupClientConfig" }
IsExpandEnvObjs(e) == e.op = "expandEnvObjs"

\* The builder calls made so far, in order.
BuilderIo == SelectSeq(io, IsBuilder)

GetwdOnly == << IoEntry("Getwd", <<>>, TRUE) >>

\* initDiffCmd was called (the working directory was found) and has returned.
Resolved == pc \in { "Run", "done" } /\ io # <<>> /\ io[1].ok

\* No error of the setup: none at all, or only the one Run returned.
SetupOk == err \in { "none", "RunError" }

\* initDiffCmd returned a command: every step of the selected mode succeeded.
ResolvedOk == Resolved /\ SetupOk

BothQualified == Len(args) = 2 /\ Qualified(args[1]) /\ Qualified(args[2])

Step(op, env) == [op |-> op, env |-> env]

\* The builder steps of each mode, in the order the mode is to run them.
Plan ==
    IF Len(args) = 1
    THEN << Step("expandEnvCmdObjs", args[1]), Step("restClientPool", args[1]),
            Step("namespace", <<>>) >>
    ELSE LET k1 == KindOf(args[1])
             k2 == KindOf(args[2])
             n1 == NameOf(args[1])
             n2 == NameOf(args[2])
         IN  IF k1 = "local" /\ k2 = "local"
             THEN << Step("expandEnvObjs", n1), Step("expandEnvObjs", n2) >>
             ELSE IF k1 = "remote" /\ k2 = "remote"
                  THEN << Step("expandEnvObjs", n1), Step("expandEnvObjs", n2),
                          Step("setupClientConfig", n1), Step("setupClientConfig", n2) >>
                  ELSE IF k1 = "local"
                       THEN << Step("expandEnvObjs", n1), Step("setupClientConfig", n2) >>
                       ELSE << Step("expandEnvObjs", n2), Step("setupClientConfig", n1) >>

ClientSlot(env) ==
    [Name |-> <<>>, APIObjects |-> Nil, ClientPool |-> Pool(env),
     Discovery |-> Disc(env), Namespace |-> Ns(env)]

-----------------------------------------------------------------------------
\* C1: two qualified locators, no component filter, every builder succeeding:
\* local/local is resolved by initDiffLocalCmd (TwoLocalEnvironments),
\* remote/remote by initDiffRemotesCmd (TwoRemoteEnvironments), a mixed pair by
\* initDiffRemoteCmd (LocalVersusRemote) whose manifests are those of the
\* local locator's name and whose client is that of the remote locator's
\* name, whichever position each is in.
C1_Dispatch ==
    (ResolvedOk /\ BothQualified /\ files = <<>>) =>
        LET k1 == KindOf(args[1])
            k2 == KindOf(args[2])
            n1 == NameOf(args[1])
            n2 == NameOf(args[2])
        IN  /\ (k1 = "local" /\ k2 = "local") =>
                    /\ fn.name = "initDiffLocalCmd"
                    /\ c.type = "DiffLocalCmd"
                    /\ c.A.APIObjects = Objs(n1)
                    /\ c.B.APIObjects = Objs(n2)
            /\ (k1 = "remote" /\ k2 = "remote") =>
                    /\ fn.name = "initDiffRemotesCmd"
                    /\ c.type = "DiffRemotesCmd"
                    /\ c.A.ClientPool = Pool(n1)
                    /\ c.B.ClientPool = Pool(n2)
            /\ (k1 # k2) =>
                    LET l == IF k1 = "local" THEN n1 ELSE n2
                        r == IF k1 = "remote" THEN n1 ELSE n2
                    IN  /\ fn.name = "initDiffRemoteCmd"
                        /\ c = [type |-> "DiffRemoteCmd", DiffStrategy |-> diffStrategy,
                                A |-> [ClientSlot(r) EXCEPT !.APIObjects = Objs(l)],
                                B |-> EmptySlot]

\* A remote locator followed by a local one, with different names, resolved and run.
C1_Witness ==
    /\ ran
    /\ BothQualified
    /\ KindOf(args[1]) = "remote"
    /\ KindOf(args[2]) = "local"
    /\ NameOf(args[1]) # NameOf(args[2])

\* C2 as stated: with two locators and a component filter, resolution fails
\* with UnsupportedFlagCombination whatever the two strings are, before the
\* application root lookup and before any builder.
C2_Original ==
    (Resolved /\ Len(args) = 2 /\ files # <<>>) =>
        /\ err = "UnsupportedFlagCombination"
        /\ io = GetwdOnly

\* C2 amended: with two locators and a component filter, resolution fails
\* with UnsupportedFlagCombination when both locators are qualified and with
\* MissingOrInvalidPrefix otherwise, in both cases before the application
\* root lookup and before any builder.
C2_Amended ==
    (Resolved /\ Len(args) = 2 /\ files # <<>>) =>
        /\ err = IF BothQualified THEN "UnsupportedFlagCombination"
                                  ELSE "MissingOrInvalidPrefix"
        /\ io = GetwdOnly
        /\ c = NilCmd
        /\ ~ran

C2_Witness ==
    /\ Resolved
    /\ BothQualified
    /\ files # <<>>
    /\ err = "UnsupportedFlagCombination"

\* C3 as stated: a locator with a colon whose prefix is neither local nor
\* remote makes resolution fail with InvalidLocatorFormat, alone or as one of two.
C3_Original ==
    (Resolved /\ \E i \in 1..Len(args) : ForeignPrefix(args[i])) =>
        /\ err = "InvalidLocatorFormat"
        /\ c = NilCmd

\* C3 amended: such a locator given as one of two arguments makes resolution
\* fail with MissingOrInvalidPrefix before any builder; given alone it raises
\* no argument error: the whole string is the environment name of a
\* single-environment resolution, whose first builder call expands it.
C3_Amended ==
    (Resolved /\ \E i \in 1..Len(args) : ForeignPrefix(args[i])) =>
        /\ Len(args) = 2 =>
                /\ err = "MissingOrInvalidPrefix"
                /\ c = NilCmd
                /\ io = GetwdOnly
        /\ Len(args) = 1 =>
                /\ err \notin ArgumentErrors
                /\ fn.name = "initDiffSingleEnv"
                /\ Len(io) >= 2
                /\ io[2].op = "expandEnvCmdObjs"
                /\ io[2].env = args[1]
                /\ SetupOk => c.A.APIObjects = Objs(args[1])

C3_Witness ==
    /\ Len(args) = 1
    /\ ForeignPrefix(args[1])
    /\ ran

\* C4: a single locator carrying a local: or remote: prefix fails with
\* PrefixNotAllowedForSingleArgument before any builder; a single locator
\* without one is resolved by initDiffSingleEnv, whose expansion and client
\* context are both built for that same name.
C4_SingleArgument ==
    (Resolved /\ Len(args) = 1) =>
        IF Qualified(args[1])
        THEN /\ err = "PrefixNotAllowedForSingleArgument"
             /\ c = NilCmd
             /\ io = GetwdOnly
             /\ ~ran
        ELSE /\ err # "PrefixNotAllowedForSingleArgument"
             /\ fn.name = "initDiffSingleEnv"
             /\ Len(io) >= 2
             /\ io[2].op = "expandEnvCmdObjs"
             /\ io[2].env = args[1]
             /\ SetupOk =>
                    /\ c.type = "DiffRemoteCmd"
                    /\ c.A.APIObjects = Objs(args[1])
                    /\ c.A.ClientPool = Pool(args[1])
                    /\ Len(io) >= 3
                    /\ io[3].op = "restClientPool"
                    /\ io[3].env = args[1]

C4_Witness ==
    /\ Resolved
    /\ Len(args) = 1
    /\ QualifiedAs(args[1], local)
    /\ err = "PrefixNotAllowedForSingleArgument"

\* C5: with two locators, one of which is not qualified, resolution fails
\* with MissingOrInvalidPrefix and returns no command; with both qualified
\* that error does not occur, also when a name is empty or holds a colon.
C5_TwoArguments ==
    (Resolved /\ Len(args) = 2) =>
        IF BothQualified
        THEN err # "MissingOrInvalidPrefix"
        ELSE err = "MissingOrInvalidPrefix" /\ c = NilCmd /\ ~ran

\* remote:a:b with local: resolved and run.
C5_Witness ==
    /\ ran
    /\ BothQualified
    /\ \E i \in 1..2 : NameOf(args[i]) = <<>>
    /\ \E i \in 1..2 : \E j \in 1..Len(NameOf(args[i])) : NameOf(args[i])[j] = ":"

-----------------------------------------------------------------------------
\* The expandEnvObjs calls made so far, in order.
ExpandIo == SelectSeq(io, IsExpandEnvObjs)

\* C6 as stated: the search paths of every evaluator call are the
\* environment library path, the vendor path, the shared library path, then
\* the caller-provided paths in their order.
C6_Original ==
    \A i \in 1..Len(evalCalls) :
        LET e == evalCalls[i]
        IN  e.jpath = << <<"envLib", e.env>>, <<"vendor", <<>>>>, <<"lib", <<>>>> >> \o flagJpath

\* C6 amended: the search paths of every evaluator call made by
\* expandEnvObjs are the shared library path, the vendor path, the
\* library path of the environment being expanded, then the caller-provided
\* paths in their order (the environment library path is third, not first).
C6_Amended ==
    \A i \in 1..Len(evalCalls) :
        LET e == evalCalls[i]
        IN  /\ e.env = ExpandIo[i].env
            /\ e.env = Plan[i].env
            /\ e.jpath = << <<"lib", <<>>>>, <<"vendor", <<>>>>, <<"envLib", e.env>> >> \o flagJpath

\* Two evaluator calls for different environments with two different caller paths.
C6_Witness ==
    /\ Len(evalCalls) = 2
    /\ evalCalls[1].env # evalCalls[2].env
    /\ Len(flagJpath) = 2
    /\ flagJpath[1] # flagJpath[2]

\* C7: the external codes of every evaluator call made by expandEnvObjs are
\* the base object, the parameters of the environment being expanded, then
\* the caller-supplied codes in their order; each expandEnvObjs call that
\* gets as far as the evaluator invokes it once, with the component file of
\* that environment as its only entry point.
C7_ExtCodes ==
    /\ Len(evalCalls) <= Len(ExpandIo)
    /\ \A i \in 1..Len(ExpandIo) : ExpandIo[i].ok => i <= Len(evalCalls)
    /\ \A i \in 1..Len(evalCalls) :
        LET e == evalCalls[i]
        IN  /\ e.env = ExpandIo[i].env
            /\ e.env = Plan[i].env
            /\ e.extCodes = << <<"baseObj", <<>>>>, <<"import", e.env>> >> \o flagExtCodes
            /\ e.envFiles = << <<"envComponent", e.env>> >>

\* Two evaluator calls for different environments with two different caller codes.
C7_Witness ==
    /\ Len(evalCalls) = 2
    /\ evalCalls[1].env # evalCalls[2].env
    /\ Len(flagExtCodes) = 2
    /\ flagExtCodes[1] # flagExtCodes[2]

-----------------------------------------------------------------------------
\* C8 as stated: an invocation that ends in an argument error has made no
\* call at all before it (no working-directory lookup, no application root
\* lookup, no builder) and does not invoke Run.
C8_Original ==
    (err \in ArgumentErrors) => (io = <<>> /\ ~ran)

\* C8 amended: an invocation that ends in an argument error has looked up no
\* application root, run no builder and does not invoke Run; the two
\* argument-count errors precede every call, the three errors of initDiffCmd
\* and initDiffSingleEnv are preceded by the working-directory lookup only.
C8_Amended ==
    (err \in ArgumentErrors) =>
        /\ ~ran
        /\ pc = "done"
        /\ c = NilCmd
        /\ io = IF err \in { "NoArguments", "TooManyArguments" } THEN <<>> ELSE GetwdOnly

C8_Witness ==
    /\ err = "MissingOrInvalidPrefix"
    /\ io = GetwdOnly
    /\ Len(args) = 2
    /\ Qualified(args[1])
    /\ ~Qualified(args[2])

\* C9: the builder steps of a mode run in the mode's order; nothing is
\* called after a call that failed; a failed setup call makes the invocation
\* return its error and no command, without Run; Run is invoked only after
\* every step of the mode has succeeded, it is the last call, and the only
\* error an invocation that ran can end with is the one Run returned.
C9_FailFast ==
    /\ \A i \in 1..(Len(io) - 1) : io[i].ok /\ io[i].op # "Run"
    /\ ran <=> (io # <<>> /\ io[Len(io)].op = "Run")
    /\ BuilderIo # <<>> =>
            /\ Len(BuilderIo) <= Len(Plan)
            /\ \A i \in 1..Len(BuilderIo) :
                    /\ BuilderIo[i].op = Plan[i].op
                    /\ BuilderIo[i].env = Plan[i].env
    /\ (io # <<>> /\ ~io[Len(io)].ok /\ io[Len(io)].op # "Run") =>
            /\ pc = "done"
            /\ err \notin ArgumentErrors \cup { "none", "RunError" }
            /\ c = NilCmd
            /\ ~ran
    /\ pc = "Run" => err = "none" /\ ~ran
    /\ (pc = "Run" \/ ran) =>
            /\ SetupOk
            /\ err = "RunError" <=> (ran /\ ~io[Len(io)].ok)
            /\ c # NilCmd
            /\ Len(BuilderIo) = Len(Plan)
            /\ \A i \in 1..Len(BuilderIo) : BuilderIo[i].ok

\* Two remotes whose first client context failed after both expansions.
C9_Witness ==
    /\ pc = "done"
    /\ Len(BuilderIo) = 3
    /\ BuilderIo[3].op = "setupClientConfig"
    /\ ~BuilderIo[3].ok
    /\ err = "ClientError"

\* C10 as stated: resolving two remotes builds two client contexts and
\* performs no manifest expansion; resolving two locals performs two
\* expansions and builds no client context.
C10_Original ==
    (ResolvedOk /\ BothQualified) =>
        /\ (KindOf(args[1]) = "remote" /\ KindOf(args[2]) = "remote") =>
                /\ Len(SelectSeq(io, IsClientBuild)) = 2
                /\ Len(SelectSeq(io, IsExpansion)) = 0
        /\ (KindOf(args[1]) = "local" /\ KindOf(args[2]) = "local") =>
                /\ Len(SelectSeq(io, IsExpansion)) = 2
                /\ Len(SelectSeq(io, IsClientBuild)) = 0

\* C10 amended: resolving two remotes builds two client contexts, one per
\* named environment and each for its own name, after two manifest
\* expansions, one per named environment; resolving two locals performs two
\* expansions, one per named environment, and builds no client context.
C10_Amended ==
    (ResolvedOk /\ BothQualified) =>
        LET n1 == NameOf(args[1])
            n2 == NameOf(args[2])
            ok(op, env) == IoEntry(op, env, TRUE)
        IN  /\ (KindOf(args[1]) = "remote" /\ KindOf(args[2]) = "remote") =>
                    /\ BuilderIo = << ok("expandEnvObjs", n1), ok("expandEnvObjs", n2),
                                      ok("setupClientConfig", n1), ok("setupClientConfig", n2) >>
                    /\ c.type = "DiffRemotesCmd"
                    /\ c.A = [ClientSlot(n1) EXCEPT !.Name = n1, !.APIObjects = Objs(n1)]
                    /\ c.B = [ClientSlot(n2) EXCEPT !.Name = n2, !.APIObjects = Objs(n2)]
            /\ (KindOf(args[1]) = "local" /\ KindOf(args[2]) = "local") =>
                    /\ BuilderIo = << ok("expandEnvObjs", n1), ok("expandEnvObjs", n2) >>
                    /\ c.type = "DiffLocalCmd"
                    /\ c.A = [EmptySlot EXCEPT !.Name = n1, !.APIObjects = Objs(n1)]
                    /\ c.B = [EmptySlot EXCEPT !.Name = n2, !.APIObjects = Objs(n2)]

\* Two remotes with different names, resolved and run.
C10_Witness ==
    /\ ran
    /\ BothQualified
    /\ KindOf(args[1]) = "remote"
    /\ KindOf(args[2]) = "remote"
    /\ NameOf(args[1]) # NameOf(args[2])

====
